---- MODULE Spec2Model ----
(***************************************************************************)
(* A model of src/src/bridge.ts: the Controller (one python subprocess,    *)
(* its read handler, its send operation), the python hook the subprocess   *)
(* runs, and the PyBridge cache of controllers.                            *)
(*                                                                         *)
(* Bytes are one-character strings; a Buffer or a string is a sequence of  *)
(* them.  JSON text is parsed and printed character by character.          *)
(***************************************************************************)
EXTENDS Integers, Sequences, FiniteSets, TLC

(***************************************************************************)
(* Bounds of the model.                                                    *)
(***************************************************************************)
\* Calls issued through the facades of one bridge, over all sessions.
MaxCalls == 2

(***************************************************************************)
(* JavaScript / JSON values, and the python values json.loads makes of     *)
(* them.  Every value is a record of the same shape: k the kind, n and d   *)
(* the number n / 10^d (n the 0/1 of a boolean), py what python makes of   *)
(* a number, s the characters of a string, a the elements of an array, m   *)
(* the members of an object.                                               *)
(***************************************************************************)
JsVal(k, n, s, a, m) ==
    [k |-> k, n |-> n, d |-> 0, py |-> "", s |-> s, a |-> a, m |-> m]
Undefined == JsVal("undefined", 0, <<>>, <<>>, <<>>)
JsNull == JsVal("null", 0, <<>>, <<>>, <<>>)
JsBool(b) == JsVal("bool", IF b THEN 1 ELSE 0, <<>>, <<>>, <<>>)
JsNum(n) == JsVal("num", n, <<>>, <<>>, <<>>)
\* A number that is not an integer: n / 10^d, d > 0, n not a multiple of 10.
JsDec(n, d) == [JsNum(n) EXCEPT !.d = d]
\* A python float: py is "float" for the finite number n / 10^d (an int has
\* py ""), or the name of a float that is no such number.  Infinity and
\* -Infinity are also the JavaScript numbers of these names.
PyFloat(v) == [v EXCEPT !.py = "float"]
NonFinite == {"NaN", "Infinity", "-Infinity"}
PySpecial(name) == [JsNum(0) EXCEPT !.py = name]
JsStr(s) == JsVal("str", 0, s, <<>>, <<>>)
JsArr(a) == JsVal("arr", 0, <<>>, a, <<>>)
JsObj(m) == JsVal("obj", 0, <<>>, <<>>, m)
Member(key, val) == [key |-> key, val |-> val]

\* JavaScript truthiness: what `if (x)` tests.
Truthy(v) ==
    CASE v.k = "undefined" -> FALSE
      [] v.k = "null" -> FALSE
      [] v.k = "bool" -> v.n = 1
      [] v.k = "num" -> v.n # 0 \/ v.py \in {"Infinity", "-Infinity"}
      [] v.k = "str" -> v.s # <<>>
      [] OTHER -> TRUE

RECURSIVE LastIndexOfKey(_, _, _)
LastIndexOfKey(m, key, i) ==
    IF i = 0 THEN 0
    ELSE IF m[i].key = key THEN i
    ELSE LastIndexOfKey(m, key, i - 1)

\* obj.key of a parsed object: the last member of that name, else undefined.
HasKey(obj, key) == obj.k = "obj" /\ LastIndexOfKey(obj.m, key, Len(obj.m)) # 0
Get(obj, key) ==
    IF HasKey(obj, key) THEN obj.m[LastIndexOfKey(obj.m, key, Len(obj.m))].val
    ELSE Undefined

KeyId == <<"i", "d">>
KeyReady == <<"r", "e", "a", "d", "y">>
KeyYield == <<"y", "i", "e", "l", "d">>
KeyError == <<"e", "r", "r", "o", "r">>
KeyMethod == <<"m", "e", "t", "h", "o", "d">>
KeyArgs == <<"a", "r", "g", "s">>

\* Body(v), with v computed once.
Bind(v, Body(_)) == CHOOSE r \in {Body(x) : x \in {v}} : TRUE

(***************************************************************************)
(* Text.  A character is a UTF-16 code unit, written as a string: the      *)
(* printable ASCII characters and tab, line feed, form feed and carriage   *)
(* return as themselves, any other code unit (and the grave accent, which  *)
(* a string of this language cannot hold) as CharName of its code: U+ and  *)
(* four hex digits.                                                        *)
(***************************************************************************)
NL == "\n"
DigitChars == <<"0", "1", "2", "3", "4", "5", "6", "7", "8", "9">>
IsDigit(c) == \E d \in 1..10 : DigitChars[d] = c
DigitVal(c) == (CHOOSE d \in 1..10 : DigitChars[d] = c) - 1

HexChars == <<"0", "1", "2", "3", "4", "5", "6", "7", "8", "9",
              "a", "b", "c", "d", "e", "f">>
UpperHexChars == <<"0", "1", "2", "3", "4", "5", "6", "7", "8", "9",
                   "A", "B", "C", "D", "E", "F">>
IsHex(c) == \E d \in 1..16 : HexChars[d] = c \/ UpperHexChars[d] = c
HexVal(c) == (CHOOSE d \in 1..16 : HexChars[d] = c \/ UpperHexChars[d] = c) - 1

\* The four hex digits of a code unit, as \u escapes are printed.
Hex4(code) ==
    <<HexChars[((code \div 4096) % 16) + 1], HexChars[((code \div 256) % 16) + 1],
      HexChars[((code \div 16) % 16) + 1], HexChars[(code % 16) + 1]>>

\* The characters of the codes 32 to 126, in order.
Printable ==
    <<" ", "!", "\"", "#", "$", "%", "&", "'", "(", ")", "*", "+",
      ",", "-", ".", "/", "0", "1", "2", "3", "4", "5", "6", "7",
      "8", "9", ":", ";", "<", "=", ">", "?", "@", "A", "B", "C",
      "D", "E", "F", "G", "H", "I", "J", "K", "L", "M", "N", "O",
      "P", "Q", "R", "S", "T", "U", "V", "W", "X", "Y", "Z", "[",
      "\\", "]", "^", "_", "U+0060", "a", "b", "c", "d", "e", "f", "g",
      "h", "i", "j", "k", "l", "m", "n", "o", "p", "q", "r", "s",
      "t", "u", "v", "w", "x", "y", "z", "{", "|", "}", "~">>

CharName(code) ==
    "U+" \o Hex4(code)[1] \o Hex4(code)[2] \o Hex4(code)[3] \o Hex4(code)[4]

\* String.fromCharCode(code)
CharOf(code) ==
    IF code \in 32..126 THEN Printable[code - 31]
    ELSE CASE code = 9 -> "\t"
           [] code = 10 -> "\n"
           [] code = 12 -> "\f"
           [] code = 13 -> "\r"
           [] OTHER -> CharName(code)

\* c.charCodeAt(0)
CharCode(c) ==
    IF \E i \in 1..95 : Printable[i] = c
    THEN 31 + (CHOOSE i \in 1..95 : Printable[i] = c)
    ELSE CASE c = "\t" -> 9
           [] c = "\n" -> 10
           [] c = "\f" -> 12
           [] c = "\r" -> 13
           [] OTHER -> CHOOSE code \in 0..65535 : CharName(code) = c

\* The characters below U+0020.
ControlChars == {CharOf(code) : code \in 0..31}

\* What String.prototype.trim strips: the WhiteSpace and LineTerminator
\* characters of ECMAScript.
WhiteSpace ==
    {CharOf(code) : code \in {9, 10, 11, 12, 13, 32, 160, 5760, 8232, 8233, 8239,
                              8287, 12288, 65279} \cup 8192..8202}

\* The white space of JSON text: what JSON.parse and json.loads skip.
JsonWhiteSpace == {" ", "\n", "\t", "\r"}

RECURSIVE NatToChars(_)
NatToChars(n) ==
    IF n < 10 THEN <<DigitChars[n + 1]>>
    ELSE NatToChars(n \div 10) \o <<DigitChars[(n % 10) + 1]>>

\* Buffer.includes(byte) / String.includes(char)
Includes(data, c) == \E i \in 1..Len(data) : data[i] = c

\* String.startsWith(prefix)
StartsWith(s, prefix) ==
    Len(s) >= Len(prefix) /\ SubSeq(s, 1, Len(prefix)) = prefix

\* The first index from i on that trim() keeps.
RECURSIVE SkipWs(_, _)
SkipWs(s, i) ==
    IF i <= Len(s) /\ s[i] \in WhiteSpace THEN SkipWs(s, i + 1) ELSE i

\* The last index up to i that trim() keeps.
RECURSIVE LastNonWs(_, _)
LastNonWs(s, i) ==
    IF i >= 1 /\ s[i] \in WhiteSpace THEN LastNonWs(s, i - 1) ELSE i

\* String.trim()
Trim(s) == SubSeq(s, SkipWs(s, 1), LastNonWs(s, Len(s)))

\* String.split(c): the pieces between the occurrences of c, the empty ones too.
RECURSIVE SplitFrom(_, _, _, _)
SplitFrom(s, c, start, i) ==
    IF i > Len(s) THEN <<SubSeq(s, start, Len(s))>>
    ELSE IF s[i] = c THEN <<SubSeq(s, start, i - 1)>> \o SplitFrom(s, c, i + 1, i + 1)
    ELSE SplitFrom(s, c, start, i + 1)

Split(s, c) == SplitFrom(s, c, 1, 1)

RECURSIVE JoinWith(_, _)
JoinWith(strs, sep) ==
    IF strs = <<>> THEN <<>>
    ELSE IF Len(strs) = 1 THEN strs[1]
    ELSE strs[1] \o sep \o JoinWith(Tail(strs), sep)

RECURSIVE Zeros(_)
Zeros(n) == IF n <= 0 THEN <<>> ELSE <<"0">> \o Zeros(n - 1)

(***************************************************************************)
(* Numbers as text.  Number::toString of JavaScript (py FALSE) and repr of *)
(* a python float (py TRUE) print the shortest digits of the number; they  *)
(* differ in where the exponent form starts, in how the exponent is        *)
(* written, and in the ".0" python gives a float that is a whole number.   *)
(* An integer prints as its digits in both.                                *)
(***************************************************************************)
SpecialChars(name) ==
    CASE name = "NaN" -> <<"N", "a", "N">>
      [] name = "Infinity" -> <<"I", "n", "f", "i", "n", "i", "t", "y">>
      [] name = "-Infinity" -> <<"-", "I", "n", "f", "i", "n", "i", "t", "y">>
      [] name = "-0.0" -> <<"-", "0", ".", "0">>

FiniteChars(n, d, py, float) ==
    LET abs == IF n < 0 THEN 0 - n ELSE n
        sign == IF n < 0 THEN <<"-">> ELSE <<>>
        digits == NatToChars(abs)
        k == Len(digits)
        pt == k - d
        e == 1 - pt
        exp == IF py THEN pt <= -4 ELSE pt <= -6
    IN IF d = 0 THEN sign \o digits \o (IF float THEN <<".", "0">> ELSE <<>>)
       ELSE IF ~exp
       THEN IF pt > 0
            THEN sign \o SubSeq(digits, 1, pt) \o <<".">> \o SubSeq(digits, pt + 1, k)
            ELSE sign \o <<"0", ".">> \o Zeros(0 - pt) \o digits
       ELSE sign \o <<digits[1]>>
            \o (IF k > 1 THEN <<".">> \o SubSeq(digits, 2, k) ELSE <<>>)
            \o <<"e", "-">>
            \o (IF py /\ e < 10 THEN <<"0">> ELSE <<>>) \o NatToChars(e)

\* String(v) of a JavaScript number (py FALSE), repr(v) of a python int or
\* float (py TRUE).
NumberChars(v, py) ==
    IF v.py \in NonFinite THEN SpecialChars(v.py)
    ELSE IF v.py = "-0.0" THEN (IF py THEN SpecialChars(v.py) ELSE <<"0">>)
    ELSE Bind(v, LAMBDA w : FiniteChars(w.n, w.d, py, py /\ w.py = "float"))

(***************************************************************************)
(* JSON.parse (py FALSE) and python's json.loads (py TRUE): objects,       *)
(* arrays, strings with their escapes, numbers with fraction and exponent, *)
(* true, false, null.  A number is kept exactly, as an integer or as       *)
(* n / 10^d, within the range of a double: a number too small for one is   *)
(* 0, a number too large is Infinity.  Outside the model are the numbers   *)
(* whose digits, or whose whole value, do not fit the integers of the      *)
(* checker, and the numbers other than 0 below 2.2250738585072014e-308,    *)
(* which a double holds with fewer digits than were written.  json.loads   *)
(* makes a float of a number written with a fraction or an exponent, and   *)
(* also reads NaN, Infinity and -Infinity.  Of two members of one name the *)
(* later value stays, at the place of the earlier; JSON.parse puts the     *)
(* members whose name is an array index first, in ascending order.         *)
(***************************************************************************)
ParseFail == [ok |-> FALSE, v |-> Undefined, i |-> 0]
ParseOk(v, i) == [ok |-> TRUE, v |-> v, i |-> i]

MatchAt(s, i, lit) ==
    i + Len(lit) - 1 <= Len(s) /\ SubSeq(s, i, i + Len(lit) - 1) = lit

RECURSIVE SkipJsonWs(_, _)
SkipJsonWs(s, i) ==
    IF i <= Len(s) /\ s[i] \in JsonWhiteSpace THEN SkipJsonWs(s, i + 1) ELSE i

RECURSIVE ParseDigits(_, _, _)
ParseDigits(s, i, acc) ==
    IF i <= Len(s) /\ IsDigit(s[i])
    THEN ParseDigits(s, i + 1, acc * 10 + DigitVal(s[i]))
    ELSE [n |-> acc, i |-> i]

RECURSIVE Pow10(_)
Pow10(k) == IF k <= 0 THEN 1 ELSE 10 * Pow10(k - 1)

\* The first nine digits of 0.n, n > 0 with k digits.
Lead9(n, k) == IF k <= 9 THEN n * Pow10(9 - k) ELSE n \div 10

\* n * 10^e, n > 0, is at most 2^-1075 (2.470328229...e-324), half of the
\* least double above 0: as a double it is 0.
Underflows(n, e) ==
    LET k == Len(NatToChars(n))
    IN k + e < -323 \/ (k + e = -323 /\ Lead9(n, k) <= 247032822)

\* n * 10^e, n > 0, is at least 2^1024 - 2^970 (1.797693134862315807...e308),
\* half a step above the greatest double: as a double it is Infinity.
Overflows(n, e) ==
    LET k == Len(NatToChars(n))
    IN k + e > 309
       \/ (k + e = 309 /\ IF k <= 9 THEN Lead9(n, k) >= 179769314 ELSE n >= 1797693135)

\* The number n * 10^e exactly, n > 0.
RECURSIVE Exact(_, _)
Exact(n, e) ==
    IF e > 0 THEN Exact(n * 10, e - 1)
    ELSE IF e < 0 /\ n % 10 = 0 THEN Exact(n \div 10, e + 1)
    ELSE IF e = 0 THEN JsNum(n)
    ELSE JsDec(n, 0 - e)

\* The double of n * 10^e, n >= 0.
Decimal(n, e) ==
    IF n = 0 THEN JsNum(0)
    ELSE IF Underflows(n, e) THEN JsNum(0)
    ELSE IF Overflows(n, e) THEN PySpecial("Infinity")
    ELSE Exact(n, e)

Negate(v) ==
    IF v.py = "Infinity" THEN PySpecial("-Infinity") ELSE [v EXCEPT !.n = 0 - @]

\* The integer part: a single 0, or digits that start with 1 to 9.
ParseInt(s, j) ==
    IF s[j] = "0" THEN [n |-> 0, i |-> j + 1] ELSE ParseDigits(s, j, 0)

\* The fraction after the integer part int: n the digits of both, len the
\* number of fraction digits.
ParseFraction(s, int) ==
    IF int.i <= Len(s) /\ s[int.i] = "."
    THEN Bind(ParseDigits(s, int.i + 1, int.n), LAMBDA f :
             [has |-> TRUE, n |-> f.n, i |-> f.i, len |-> f.i - (int.i + 1)])
    ELSE [has |-> FALSE, n |-> int.n, i |-> int.i, len |-> 0]

\* The exponent at i: e its value, len the number of its digits.
ParseExponent(s, i) ==
    IF i <= Len(s) /\ s[i] \in {"e", "E"}
    THEN LET signed == i + 1 <= Len(s) /\ s[i + 1] \in {"+", "-"}
             at == IF signed THEN i + 2 ELSE i + 1
         IN Bind(ParseDigits(s, at, 0), LAMBDA x :
                [has |-> TRUE, i |-> x.i, len |-> x.i - at,
                 e |-> IF signed /\ s[i + 1] = "-" THEN 0 - x.n ELSE x.n])
    ELSE [has |-> FALSE, i |-> i, len |-> 0, e |-> 0]

\* The value of the number whose digits are frac and whose exponent is exp.
NumberValue(neg, frac, exp, py) ==
    Bind(Decimal(frac.n, exp.e - frac.len), LAMBDA v :
        IF v.py = "Infinity" THEN (IF neg THEN Negate(v) ELSE v)
        ELSE IF py /\ (frac.has \/ exp.has)
        THEN IF neg /\ v.n = 0 THEN PySpecial("-0.0")
             ELSE PyFloat(IF neg THEN Negate(v) ELSE v)
        ELSE IF neg THEN Negate(v) ELSE v)

ParseNumber(s, i, py) ==
    LET neg == i <= Len(s) /\ s[i] = "-"
        j == IF neg THEN i + 1 ELSE i
    IN IF j > Len(s) \/ ~IsDigit(s[j]) THEN ParseFail
       ELSE Bind(ParseFraction(s, ParseInt(s, j)), LAMBDA frac :
            Bind(ParseExponent(s, frac.i), LAMBDA exp :
                IF frac.has /\ frac.len = 0 THEN ParseFail
                ELSE IF exp.has /\ exp.len = 0 THEN ParseFail
                ELSE ParseOk(NumberValue(neg, frac, exp, py), exp.i)))

\* The characters of a string literal whose opening quote is before i.
RECURSIVE ScanString(_, _, _)
ScanString(s, i, acc) ==
    IF i > Len(s) THEN ParseFail
    ELSE IF s[i] = "\"" THEN ParseOk(JsStr(acc), i + 1)
    ELSE IF s[i] = "\\" THEN
        IF i + 1 > Len(s) THEN ParseFail
        ELSE IF s[i + 1] = "n" THEN ScanString(s, i + 2, Append(acc, "\n"))
        ELSE IF s[i + 1] = "t" THEN ScanString(s, i + 2, Append(acc, "\t"))
        ELSE IF s[i + 1] = "r" THEN ScanString(s, i + 2, Append(acc, "\r"))
        ELSE IF s[i + 1] = "f" THEN ScanString(s, i + 2, Append(acc, "\f"))
        ELSE IF s[i + 1] = "b" THEN ScanString(s, i + 2, Append(acc, CharOf(8)))
        ELSE IF s[i + 1] \in {"\"", "\\", "/"}
             THEN ScanString(s, i + 2, Append(acc, s[i + 1]))
        ELSE IF s[i + 1] = "u" THEN
            IF i + 5 <= Len(s) /\ \A h \in 2..5 : IsHex(s[i + h])
            THEN ScanString(s, i + 6,
                            Append(acc, CharOf(HexVal(s[i + 2]) * 4096
                                               + HexVal(s[i + 3]) * 256
                                               + HexVal(s[i + 4]) * 16
                                               + HexVal(s[i + 5]))))
            ELSE ParseFail
        ELSE ParseFail
    ELSE IF s[i] \in ControlChars THEN ParseFail
    ELSE ScanString(s, i + 1, Append(acc, s[i]))

\* a < b, for the digits of two numbers written without leading zeros.
DigitsLess(a, b) ==
    \/ Len(a) < Len(b)
    \/ /\ Len(a) = Len(b)
       /\ \E i \in 1..Len(a) :
              /\ DigitVal(a[i]) < DigitVal(b[i])
              /\ \A j \in 1..(i - 1) : a[j] = b[j]

\* The key is an array index of JavaScript: the canonical digits of an integer
\* from 0 to 2^32 - 2.
IsIndexKey(key) ==
    /\ key # <<>>
    /\ \A i \in 1..Len(key) : IsDigit(key[i])
    /\ Len(key) = 1 \/ key[1] # "0"
    /\ ~DigitsLess(<<"4", "2", "9", "4", "9", "6", "7", "2", "9", "4">>, key)

\* The members with key set to val: in the place the key has; else, in
\* JavaScript (py FALSE) an array index after the lesser array indices, which
\* come first; else at the end.
SetMember(m, key, val, py) ==
    IF \E x \in 1..Len(m) : m[x].key = key
    THEN [x \in 1..Len(m) |-> IF m[x].key = key THEN Member(key, val) ELSE m[x]]
    ELSE IF ~py /\ IsIndexKey(key)
    THEN Bind(Cardinality({x \in 1..Len(m) :
                              IsIndexKey(m[x].key) /\ DigitsLess(m[x].key, key)}),
              LAMBDA at : SubSeq(m, 1, at) \o <<Member(key, val)>>
                          \o SubSeq(m, at + 1, Len(m)))
    ELSE Append(m, Member(key, val))

RECURSIVE ParseValue(_, _, _)
RECURSIVE ParseElements(_, _, _, _)
RECURSIVE ParseMembers(_, _, _, _)

ParseValueAt(s, i, py) ==
    IF i > Len(s) THEN ParseFail
    ELSE IF s[i] = "{" THEN
        Bind(SkipJsonWs(s, i + 1), LAMBDA j :
            IF j <= Len(s) /\ s[j] = "}" THEN ParseOk(JsObj(<<>>), j + 1)
            ELSE ParseMembers(s, j, <<>>, py))
    ELSE IF s[i] = "[" THEN
        Bind(SkipJsonWs(s, i + 1), LAMBDA j :
            IF j <= Len(s) /\ s[j] = "]" THEN ParseOk(JsArr(<<>>), j + 1)
            ELSE ParseElements(s, j, <<>>, py))
    ELSE IF s[i] = "\"" THEN ScanString(s, i + 1, <<>>)
    ELSE IF MatchAt(s, i, <<"t", "r", "u", "e">>) THEN ParseOk(JsBool(TRUE), i + 4)
    ELSE IF MatchAt(s, i, <<"f", "a", "l", "s", "e">>) THEN ParseOk(JsBool(FALSE), i + 5)
    ELSE IF MatchAt(s, i, <<"n", "u", "l", "l">>) THEN ParseOk(JsNull, i + 4)
    ELSE IF py /\ MatchAt(s, i, SpecialChars("NaN"))
         THEN ParseOk(PySpecial("NaN"), i + 3)
    ELSE IF py /\ MatchAt(s, i, SpecialChars("Infinity"))
         THEN ParseOk(PySpecial("Infinity"), i + 8)
    ELSE IF py /\ MatchAt(s, i, SpecialChars("-Infinity"))
         THEN ParseOk(PySpecial("-Infinity"), i + 9)
    ELSE ParseNumber(s, i, py)

ParseValue(s, i0, py) == Bind(SkipJsonWs(s, i0), LAMBDA i : ParseValueAt(s, i, py))

ParseElements(s, i0, acc, py) ==
    Bind(ParseValue(s, i0, py), LAMBDA v :
        IF ~v.ok THEN ParseFail
        ELSE Bind(SkipJsonWs(s, v.i), LAMBDA e :
            IF e > Len(s) THEN ParseFail
            ELSE IF s[e] = "," THEN ParseElements(s, e + 1, Append(acc, v.v), py)
            ELSE IF s[e] = "]" THEN ParseOk(JsArr(Append(acc, v.v)), e + 1)
            ELSE ParseFail))

\* The member at i: its key, its value, and e the index after the white space
\* that follows it.
ParseMember(s, i, py) ==
    IF i > Len(s) \/ s[i] # "\"" THEN ParseFail
    ELSE Bind(ScanString(s, i + 1, <<>>), LAMBDA key :
        IF ~key.ok THEN ParseFail
        ELSE Bind(SkipJsonWs(s, key.i), LAMBDA c :
            IF c > Len(s) \/ s[c] # ":" THEN ParseFail
            ELSE Bind(ParseValue(s, c + 1, py), LAMBDA v :
                IF ~v.ok THEN ParseFail
                ELSE [ok |-> TRUE, key |-> key.v.s, v |-> v.v,
                      i |-> SkipJsonWs(s, v.i)])))

ParseMembers(s, i0, acc, py) ==
    Bind(ParseMember(s, SkipJsonWs(s, i0), py), LAMBDA mem :
        IF ~mem.ok \/ mem.i > Len(s) THEN ParseFail
        ELSE IF s[mem.i] = ","
             THEN ParseMembers(s, mem.i + 1, SetMember(acc, mem.key, mem.v, py), py)
        ELSE IF s[mem.i] = "}"
             THEN ParseOk(JsObj(SetMember(acc, mem.key, mem.v, py)), mem.i + 1)
        ELSE ParseFail)

\* The value of the whole text: ok is FALSE where the parser throws.
ParseText(text, py) ==
    Bind(text, LAMBDA s :
        Bind(ParseValue(s, 1, py), LAMBDA r :
            IF r.ok /\ SkipJsonWs(s, r.i) = Len(s) + 1
            THEN [ok |-> TRUE, v |-> r.v]
            ELSE [ok |-> FALSE, v |-> Undefined]))

\* JSON.parse(text)
JSONparse(text) == ParseText(text, FALSE)

\* json.loads(text)
Loads(text) == ParseText(text, TRUE)

(***************************************************************************)
(* JSON.stringify (py FALSE: separators "," and ":") and python's          *)
(* json.dumps (py TRUE: separators ", " and ": ", every character outside  *)
(* the printable ASCII escaped).                                           *)
(***************************************************************************)
IsHighSurrogate(c) ==
    c \notin ControlChars /\ CharOf(CharCode(c)) = c /\ CharCode(c) \in 55296..56319
IsLowSurrogate(c) ==
    c \notin ControlChars /\ CharOf(CharCode(c)) = c /\ CharCode(c) \in 56320..57343

IsPrintable(c) == \E i \in 1..95 : Printable[i] = c

EscapeChar(c) ==
    CASE c = "\n" -> <<"\\", "n">>
      [] c = "\t" -> <<"\\", "t">>
      [] c = "\r" -> <<"\\", "r">>
      [] c = "\f" -> <<"\\", "f">>
      [] c = CharOf(8) -> <<"\\", "b">>
      [] c = "\"" -> <<"\\", "\"">>
      [] c = "\\" -> <<"\\", "\\">>
      [] OTHER -> <<"\\", "u">> \o Hex4(CharCode(c))

RECURSIVE EscapeChars(_, _)
EscapeChars(s, py) ==
    IF s = <<>> THEN <<>>
    ELSE IF s[1] \in {"\"", "\\"} \/ s[1] \in ControlChars
         THEN EscapeChar(s[1]) \o EscapeChars(Tail(s), py)
    ELSE IF IsPrintable(s[1]) THEN <<s[1]>> \o EscapeChars(Tail(s), py)
    ELSE IF py THEN EscapeChar(s[1]) \o EscapeChars(Tail(s), py)
    \* JSON.stringify: a surrogate is escaped unless it is half of a pair
    ELSE IF IsHighSurrogate(s[1]) /\ Len(s) >= 2 /\ IsLowSurrogate(s[2])
         THEN <<s[1], s[2]>> \o EscapeChars(SubSeq(s, 3, Len(s)), py)
    ELSE IF IsHighSurrogate(s[1]) \/ IsLowSurrogate(s[1])
         THEN EscapeChar(s[1]) \o EscapeChars(Tail(s), py)
    ELSE <<s[1]>> \o EscapeChars(Tail(s), py)

Quote(s, py) == <<"\"">> \o EscapeChars(s, py) \o <<"\"">>

RECURSIVE Encode(_, _)
RECURSIVE EncodeElements(_, _)
RECURSIVE EncodeMembers(_, _)

ItemSep(py) == IF py THEN <<",", " ">> ELSE <<",">>
KeySep(py) == IF py THEN <<":", " ">> ELSE <<":">>

Encode(v, py) ==
    CASE v.k \in {"null", "undefined"} -> <<"n", "u", "l", "l">>
      [] v.k = "bool" -> IF v.n = 1 THEN <<"t", "r", "u", "e">>
                         ELSE <<"f", "a", "l", "s", "e">>
      \* JSON.stringify prints a number that is not finite as null
      [] v.k = "num" -> IF ~py /\ v.py \in NonFinite THEN <<"n", "u", "l", "l">>
                        ELSE NumberChars(v, py)
      [] v.k = "str" -> Quote(v.s, py)
      [] v.k = "arr" -> <<"[">> \o EncodeElements(v.a, py) \o <<"]">>
      [] v.k = "obj" ->
             <<"{">>
             \o EncodeMembers(SelectSeq(v.m, LAMBDA x : x.val.k # "undefined"), py)
             \o <<"}">>

EncodeElements(a, py) ==
    IF a = <<>> THEN <<>>
    ELSE Encode(a[1], py)
         \o (IF Len(a) > 1 THEN ItemSep(py) \o EncodeElements(Tail(a), py) ELSE <<>>)

EncodeMembers(m, py) ==
    IF m = <<>> THEN <<>>
    ELSE Quote(m[1].key, py) \o KeySep(py) \o Encode(m[1].val, py)
         \o (IF Len(m) > 1 THEN ItemSep(py) \o EncodeMembers(Tail(m), py) ELSE <<>>)

\* JSON.stringify(v), v not undefined
JSONstringify(v) == Encode(v, FALSE)
\* json.dumps(v)
Dumps(v) == Encode(v, TRUE)

KeyToString == <<"t", "o", "S", "t", "r", "i", "n", "g">>

\* String(v) throws a TypeError: v is an object with a member toString of its
\* own (a parsed value is never callable, and the valueOf the object then falls
\* back to returns the object), or an array that has to convert such a value to
\* join its elements.
RECURSIVE StringThrows(_)
StringThrows(v) ==
    CASE v.k = "obj" -> HasKey(v, KeyToString)
      [] v.k = "arr" -> \E i \in DOMAIN v.a :
                            v.a[i].k \notin {"undefined", "null"} /\ StringThrows(v.a[i])
      [] OTHER -> FALSE

\* String(v), as `new Error(v)` makes its message and as a property key is made
\* of v, for a v it does not throw for.
RECURSIVE JsString(_)
RECURSIVE ToStrings(_)
JsString(v) ==
    CASE v.k = "undefined" -> <<"u", "n", "d", "e", "f", "i", "n", "e", "d">>
      [] v.k = "null" -> <<"n", "u", "l", "l">>
      [] v.k = "bool" -> IF v.n = 1 THEN <<"t", "r", "u", "e">>
                         ELSE <<"f", "a", "l", "s", "e">>
      [] v.k = "num" -> NumberChars(v, FALSE)
      [] v.k = "str" -> v.s
      [] v.k = "arr" -> JoinWith(ToStrings(v.a), <<",">>)
      [] OTHER -> <<"[", "o", "b", "j", "e", "c", "t", " ", "O", "b", "j", "e", "c", "t", "]">>
ToStrings(a) ==
    IF a = <<>> THEN <<>>
    ELSE <<(IF a[1].k \in {"undefined", "null"} THEN <<>> ELSE JsString(a[1]))>>
         \o ToStrings(Tail(a))

(***************************************************************************)
(* The python side: the module the subprocess loads.  A method either      *)
(* returns items[1] (gen FALSE), or is a generator producing items (gen    *)
(* TRUE); with raises it raises after producing them.  returnType is the   *)
(* zod schema the host's contract declares for the method: the kind of     *)
(* value it accepts.                                                       *)
(***************************************************************************)
MethodNames == {"one", "zero", "text", "count", "sparse", "boom", "fizzle"}

\* The keys of schema.shape, and the functions of the python module: the
\* methods above and feed, which the contract declares as returning a Subject.
Declared == MethodNames \cup {"feed"}

\* A name the contract does not declare.
Undeclared == "nope"

WireName(method) ==
    CASE method = "one" -> <<"o", "n", "e">>
      [] method = "zero" -> <<"z", "e", "r", "o">>
      [] method = "text" -> <<"t", "e", "x", "t">>
      [] method = "count" -> <<"c", "o", "u", "n", "t">>
      [] method = "sparse" -> <<"s", "p", "a", "r", "s", "e">>
      [] method = "boom" -> <<"b", "o", "o", "m">>
      [] method = "fizzle" -> <<"f", "i", "z", "z", "l", "e">>
      [] method = "feed" -> <<"f", "e", "e", "d">>
      [] method = "nope" -> <<"n", "o", "p", "e">>

Behaviour(method) ==
    CASE method = "one" -> [gen |-> FALSE, items |-> <<JsNum(1)>>, raises |-> FALSE]
      [] method = "zero" -> [gen |-> FALSE, items |-> <<JsNum(0)>>, raises |-> FALSE]
      [] method = "text" -> [gen |-> FALSE, items |-> <<JsStr(<<"a">>)>>, raises |-> FALSE]
      [] method = "count" -> [gen |-> TRUE, items |-> <<JsNum(1), JsNum(2)>>, raises |-> FALSE]
      [] method = "sparse" -> [gen |-> TRUE, items |-> <<JsNum(1), JsNum(0), JsNum(2)>>, raises |-> FALSE]
      [] method = "boom" -> [gen |-> FALSE, items |-> <<>>, raises |-> TRUE]
      [] method = "fizzle" -> [gen |-> TRUE, items |-> <<JsNum(0)>>, raises |-> TRUE]
      [] method = "feed" -> [gen |-> TRUE, items |-> <<JsNum(1), JsNum(2)>>, raises |-> FALSE]

\* schema.shape[name].returnType(): feed is declared z.instanceof(Subject), every
\* other method z.number().
ReturnType(method) == IF method = "feed" THEN "subject" ELSE "num"

\* PromisifyFn: a method whose declared return type is a Subject is typed as
\* returning that Subject, any other as returning a promise.
StreamReturning(method) == ReturnType(method) = "subject"

\* traceback.format_exception(...): a list of lines.
Trace == JsArr(<<JsStr(<<"T", "\n">>), JsStr(<<"E", "\n">>)>>)

YieldMessage(id, r) == JsObj(<<Member(KeyId, id), Member(KeyYield, r)>>)
ErrorMessage(id) == JsObj(<<Member(KeyId, id), Member(KeyError, Trace)>>)
DoneMessage(id) == JsObj(<<Member(KeyId, id)>>)

RECURSIVE YieldMessages(_, _)
YieldMessages(id, items) ==
    IF items = <<>> THEN <<>>
    ELSE <<YieldMessage(id, items[1])>> \o YieldMessages(id, Tail(items))

\* p = json.loads(line) fails, or gives None: the except clause prints nothing.
Skips(p) == ~p.ok \/ p.v.k = "null"
HookSkips(line) == Skips(Loads(line))

\* The except clause itself raises at p['id'] (p is no dict, or has no id): the
\* exception leaves the loop and the subprocess exits.
Crashes(p) == ~Skips(p) /\ ~HasKey(p.v, KeyId)
HookCrashes(line) == Crashes(Loads(line))

\* The messages of one call of method for the request id.
MethodMessages(id, method) ==
    YieldMessages(id, Behaviour(method).items)
    \o (IF Behaviour(method).raises THEN <<ErrorMessage(id)>> ELSE <<DoneMessage(id)>>)

\* The messages the hook prints for the request p.  The module has the
\* functions of Declared and they take no arguments; the attributes every
\* python module has besides its functions are outside the model.
RequestMessages(p) ==
    IF Skips(p) \/ Crashes(p) THEN <<>>
    ELSE LET id == Get(p.v, KeyId)
             known == {m \in Declared : JsStr(WireName(m)) = Get(p.v, KeyMethod)}
         IN IF known = {} \/ Get(p.v, KeyArgs) \notin {JsArr(<<>>), JsStr(<<>>), JsObj(<<>>)}
            THEN <<ErrorMessage(id)>>
            ELSE MethodMessages(id, CHOOSE m \in known : TRUE)

\* The messages the hook prints for one request line, in order.
HookMessages(line) == Bind(Loads(line), LAMBDA p : RequestMessages(p))

\* print(json.dumps(message) + '\n', file=orig_stdout, flush=True) writes the
\* text with the added newline, and then print's own newline.  With python's
\* output unbuffered (PYTHONUNBUFFERED, which the subprocess inherits from the
\* host's environment) these are two writes to the pipe; buffered, flush makes
\* one write of both, which is the two writes read together.  message is the
\* message a write prints, if it prints one.
PrintWrites(message) ==
    <<[bytes |-> Dumps(message) \o <<NL>>, message |-> <<message>>],
      [bytes |-> <<NL>>, message |-> <<>>]>>

\* The bytes of one print.
PrintOne(message) == PrintWrites(message)[1].bytes \o PrintWrites(message)[2].bytes

\* The writes of the prints of the messages, one after the other.
RECURSIVE Writes(_)
Writes(messages) ==
    IF messages = <<>> THEN <<>>
    ELSE PrintWrites(messages[1]) \o Writes(Tail(messages))

\* The prints of the messages, one after the other.
RECURSIVE PrintAll(_)
PrintAll(messages) ==
    IF messages = <<>> THEN <<>>
    ELSE PrintOne(messages[1]) \o PrintAll(Tail(messages))

(***************************************************************************)
(* The host side.                                                          *)
(***************************************************************************)
ModuleNames == {"m1", "m2"}

VARIABLES
    controllers,   \* PyBridge.controllers: the names with a cached facade
    asked,         \* history: the names controller() has been called with
    process,       \* per name: "none", "running", "killed" or "exited"
    messageId,     \* per name: Controller.messageId
    subscribers,   \* per name: Controller.subscribers, id -> the call whose sink it is
    buffer,        \* per name: the bytes of the read handler's buffer, concatenated
    stdin,         \* per name: the lines written to the subprocess and not yet read by it
    stdout,        \* per name: the bytes the subprocess printed, not yet delivered
    serving,       \* per name: the writes the hook has still to make for the
                   \* request it is serving
    host,          \* the node process: "running" or "ended"
    calls,         \* the calls made, in order: the subject and the promise of each
    dispatched,    \* history: every invocation of a sink, in order
    printed,       \* history, per name: the messages the subprocess printed
    received,      \* history, per name: the bytes delivered to the read handler so far
    chunks,        \* history, per name: the number of data events, counted up to ChunkCap
    spawned,       \* history, per name: the number of subprocesses spawned for it
    written,       \* history, per name: every write to the subprocess's stdin, in order
    errors         \* history: the facade calls that threw, as <<name, method>>

vars == <<controllers, asked, process, messageId, subscribers, buffer, stdin, stdout, serving,
          host, calls, dispatched, printed, received, chunks, spawned, written, errors>>

\* The count of data events is kept up to here.
ChunkCap == 2

NoSubscribers == [i \in {} |-> 0]

Init ==
    /\ controllers = {}
    /\ asked = {}
    /\ process = [n \in ModuleNames |-> "none"]
    /\ messageId = [n \in ModuleNames |-> 0]
    /\ subscribers = [n \in ModuleNames |-> NoSubscribers]
    /\ buffer = [n \in ModuleNames |-> <<>>]
    /\ stdin = [n \in ModuleNames |-> <<>>]
    /\ stdout = [n \in ModuleNames |-> <<>>]
    /\ serving = [n \in ModuleNames |-> <<>>]
    /\ host = "running"
    /\ calls = <<>>
    /\ dispatched = <<>>
    /\ printed = [n \in ModuleNames |-> <<>>]
    /\ received = [n \in ModuleNames |-> <<>>]
    /\ chunks = [n \in ModuleNames |-> 0]
    /\ spawned = [n \in ModuleNames |-> 0]
    /\ written = [n \in ModuleNames |-> <<>>]
    /\ errors = {}

(***************************************************************************)
(* rxjs Subject, and the promise subject.toPromise() returns: it resolves  *)
(* with the last value on complete and rejects on error.                   *)
(***************************************************************************)
Event(op, v) == [op |-> op, v |-> v]
Pending == [state |-> "pending", v |-> Undefined]

\* return subject.toPromise(): what the facade hands its caller, for any method.
Returned(method) == "promise"

\* sentTo: the state of the subprocess when the call was sent.
NewCall(name, id, method, schema) ==
    [name |-> name, id |-> id, method |-> method, schema |-> schema,
     events |-> <<>>, stopped |-> FALSE, last |-> Undefined, promise |-> Pending,
     returned |-> Returned(method), sentTo |-> "running"]

SubjectNext(call, v) ==
    IF call.stopped THEN call
    ELSE [call EXCEPT !.events = Append(@, Event("next", v)), !.last = v]

SubjectError(call, err) ==
    IF call.stopped THEN call
    ELSE [call EXCEPT !.events = Append(@, Event("error", err)),
                      !.stopped = TRUE,
                      !.promise = [state |-> "rejected", v |-> err]]

SubjectComplete(call) ==
    IF call.stopped THEN call
    ELSE [call EXCEPT !.events = Append(@, Event("complete", Undefined)),
                      !.stopped = TRUE,
                      !.promise = [state |-> "resolved", v |-> call.last]]

\* schema.parse(v) for the schemas of the model: z.number(), z.string(), ...
SchemaParse(schema, v) == [ok |-> v.k = schema, v |-> v]

\* new Error(x): the error, by its message String(x); it throws when String(x)
\* does.
NewErrorThrows(x) == StringThrows(x)
NewError(x) == JsStr(JsString(x))

(***************************************************************************)
(* Controller.send's subscriber callback (the sink of one call).           *)
(***************************************************************************)
\* Which branch of the if-chain a message takes.
Variant(data) ==
    IF Truthy(Get(data, KeyReady)) THEN "ready"
    ELSE IF Truthy(Get(data, KeyYield)) THEN "yield"
    ELSE IF Truthy(Get(data, KeyError)) THEN "error"
    ELSE "completion"

Remove(f, id) == [i \in DOMAIN f \ {id} |-> f[i]]

LogEntry(name, c, data, op) == [name |-> name, call |-> c, data |-> data, op |-> op]

\* st = [subs: the session's subscribers, calls, log]; c the call whose sink runs.
Subscriber(st, name, c, data) ==
    LET call == st.calls[c]
        variant == Variant(data)
    IN CASE variant = "ready" ->
              [st EXCEPT !.log = Append(@, LogEntry(name, c, data, "none"))]
         [] variant = "yield" ->
              LET z == SchemaParse(call.schema, Get(data, KeyYield))
              IN IF z.ok
                 THEN [st EXCEPT !.calls[c] = SubjectNext(call, z.v),
                                 !.log = Append(@, LogEntry(name, c, data, "next"))]
                 \* schema.parse throws; the catch {} swallows it
                 ELSE [st EXCEPT !.log = Append(@, LogEntry(name, c, data, "throw"))]
         [] variant = "error" ->
              IF NewErrorThrows(Get(data, KeyError))
              \* the sink is deleted, then new Error throws; the catch {} swallows it
              THEN [st EXCEPT !.subs = Remove(@, call.id),
                              !.log = Append(@, LogEntry(name, c, data, "throw"))]
              ELSE [st EXCEPT !.subs = Remove(@, call.id),
                              !.calls[c] = SubjectError(call, NewError(Get(data, KeyError))),
                              !.log = Append(@, LogEntry(name, c, data, "error"))]
         [] OTHER ->
              [st EXCEPT !.subs = Remove(@, call.id),
                         !.calls[c] = SubjectComplete(call),
                         !.log = Append(@, LogEntry(name, c, data, "complete"))]

(***************************************************************************)
(* Controller's read handler.                                              *)
(***************************************************************************)
\* Mutant of HasNewline: every chunk is processed as it arrives.
HasNewlineAlways(data) == TRUE

HasNewline(data) == Includes(data, NL)

\* Buffer.concat(buffer).toString("utf8").trim().split("\n")
Messages(buf) == Split(Trim(buf), NL)

IsProtocolLine(message) == StartsWith(message, <<"{", "\"">>)

\* Mutant of Registered: an event with no sink of its own goes to the pending calls.
RegisteredOrPending(subs, res) ==
    IF StringThrows(Get(res, KeyId)) THEN {}
    ELSE IF {k \in DOMAIN subs : NatToChars(k) = JsString(Get(res, KeyId))} # {}
    THEN {k \in DOMAIN subs : NatToChars(k) = JsString(Get(res, KeyId))}
    ELSE DOMAIN subs

\* this.subscribers[res.id]: the ids whose property key is String(res.id).  An
\* id that cannot be made a key throws inside the try of the read handler, and
\* an id that names a property of Object.prototype finds that property and no
\* sink: calling it (or failing to) changes nothing of the Controller.
Registered(subs, res) ==
    IF StringThrows(Get(res, KeyId)) THEN {}
    ELSE {k \in DOMAIN subs : NatToChars(k) = JsString(Get(res, KeyId))}

\* Mutant of ProcessMessage: a line that is not a message drops every sink.
ProcessMessageTearDown(st, name, message) ==
    IF ~IsProtocolLine(message) \/ ~JSONparse(message).ok
    THEN [st EXCEPT !.subs = NoSubscribers]
    ELSE LET p == JSONparse(message)
             ids == Registered(st.subs, p.v)
         IN IF ids = {} THEN st
            ELSE Subscriber(st, name, st.subs[CHOOSE k \in ids : TRUE], p.v)

ProcessMessage(st, name, message) ==
    IF ~IsProtocolLine(message) THEN st
    ELSE LET p == JSONparse(message)
         IN IF ~p.ok THEN st      \* console.warn("Could not parse: ...")
            ELSE LET ids == Registered(st.subs, p.v)
                 IN IF ids = {} THEN st
                    ELSE Subscriber(st, name, st.subs[CHOOSE k \in ids : TRUE], p.v)

RECURSIVE ProcessMessages(_, _, _)
ProcessMessages(st, name, messages) ==
    IF messages = <<>> THEN st
    ELSE ProcessMessages(ProcessMessage(st, name, messages[1]), name, Tail(messages))

BufferAfter(buf, data) == IF HasNewline(data) THEN <<>> ELSE buf \o data

\* Mutant of Read: one buffer is shared by the read handlers of all sessions.
ReadSharedBuffer(name, k) ==
    /\ host = "running"
    /\ process[name] # "none"
    /\ k \in 1..Len(stdout[name])
    /\ LET data == SubSeq(stdout[name], 1, k)
           buf == buffer[name] \o data
           st0 == [subs |-> subscribers[name], calls |-> calls, log |-> dispatched]
           st == IF HasNewline(data) THEN ProcessMessages(st0, name, Messages(buf))
                 ELSE st0
       IN /\ buffer' = [n \in ModuleNames |-> BufferAfter(buffer[name], data)]
          /\ subscribers' = [subscribers EXCEPT ![name] = st.subs]
          /\ calls' = st.calls
          /\ dispatched' = st.log
          /\ stdout' = [stdout EXCEPT ![name] = SubSeq(@, k + 1, Len(@))]
          /\ received' = [received EXCEPT ![name] = @ \o data]
          /\ chunks' = [chunks EXCEPT ![name] = IF @ < ChunkCap THEN @ + 1 ELSE @]
    /\ UNCHANGED <<controllers, asked, process, messageId, stdin, serving, host, printed,
                   spawned, written, errors>>

\* read(data), data the next k bytes of the subprocess's output.
Read(name, k) ==
    /\ host = "running"
    /\ process[name] # "none"
    /\ k \in 1..Len(stdout[name])
    /\ LET data == SubSeq(stdout[name], 1, k)
           buf == buffer[name] \o data
           st0 == [subs |-> subscribers[name], calls |-> calls, log |-> dispatched]
           st == IF HasNewline(data) THEN ProcessMessages(st0, name, Messages(buf))
                 ELSE st0
       IN /\ buffer' = [buffer EXCEPT ![name] = BufferAfter(buffer[name], data)]
          /\ subscribers' = [subscribers EXCEPT ![name] = st.subs]
          /\ calls' = st.calls
          /\ dispatched' = st.log
          /\ stdout' = [stdout EXCEPT ![name] = SubSeq(@, k + 1, Len(@))]
          /\ received' = [received EXCEPT ![name] = @ \o data]
          /\ chunks' = [chunks EXCEPT ![name] = IF @ < ChunkCap THEN @ + 1 ELSE @]
    /\ UNCHANGED <<controllers, asked, process, messageId, stdin, serving, host, printed,
                   spawned, written, errors>>

(***************************************************************************)
(* Controller.send and the facade's call.                                  *)
(***************************************************************************)
\* Mutant of NextMessageId: the counter is not advanced.
NextMessageIdStuck(id) == id

NextMessageId(id) == id + 1

Request(id, method) ==
    JsObj(<<Member(KeyId, JsNum(id)), Member(KeyMethod, JsStr(WireName(method))),
            Member(KeyArgs, JsArr(<<>>))>>)

\* Mutant of RequestLine: the request is written without its newline.
RequestLineOpen(id, method) == JSONstringify(Request(id, method))

\* JSON.stringify({ id: messageId, method, args }) + "\n"
RequestLine(id, method) == JSONstringify(Request(id, method)) \o <<NL>>

\* Mutant of Throws: a name the contract lacks is sent like any other.
ThrowsNever(method) == FALSE

\* schema.shape[name].returnType() throws a TypeError when schema.shape[name]
\* is undefined.
Throws(method) == method \notin Declared

\* What controller(name) returned is a facade of a Controller.  What it
\* returned for a name of PrototypeNames has no property of the name of any
\* method here: calling one throws a TypeError.
IsFacade(name) == name \in controllers

\* controller[method](): send(method, [], returnType) and subject.toPromise()
Call(name, method) ==
    /\ host = "running"
    /\ name \in asked
    /\ Len(calls) < MaxCalls
    /\ IF ~IsFacade(name) \/ Throws(method)
       THEN /\ errors' = errors \cup {<<name, method>>}
            /\ UNCHANGED <<messageId, calls, subscribers, stdin, written>>
       ELSE LET id == messageId[name]
                c == Len(calls) + 1
            IN /\ messageId' = [messageId EXCEPT ![name] = NextMessageId(id)]
               /\ calls' = Append(calls, [NewCall(name, id, method, ReturnType(method))
                                             EXCEPT !.sentTo = process[name]])
               /\ subscribers' = [subscribers EXCEPT ![name] =
                                     [i \in DOMAIN @ \cup {id} |->
                                         IF i = id THEN c ELSE @[i]]]
               /\ stdin' = [stdin EXCEPT ![name] = Append(@, RequestLine(id, method))]
               /\ written' = [written EXCEPT ![name] = Append(@, RequestLine(id, method))]
               /\ UNCHANGED errors
    /\ UNCHANGED <<controllers, asked, process, buffer, stdout, serving, host, dispatched,
                   printed, received, chunks, spawned>>

(***************************************************************************)
(* The hook's loop body: one request line read, its messages printed.      *)
(***************************************************************************)
\* One write of the hook: the first of the writes is made, the rest is still to
\* come.
PrintNext(name, writes) ==
    /\ stdout' = [stdout EXCEPT ![name] = @ \o Head(writes).bytes]
    /\ printed' = [printed EXCEPT ![name] = @ \o Head(writes).message]
    /\ serving' = [serving EXCEPT ![name] = Tail(writes)]

\* One step of the subprocess, up to its next write: it goes on with the
\* request it is serving, or reads the next line of its input and calls the
\* method.  Each message is printed and flushed on its own, so the host can
\* read it, and the subprocess can be killed, before the next write.
Hook(name) ==
    /\ process[name] = "running"
    /\ \/ /\ serving[name] # <<>>
          /\ PrintNext(name, serving[name])
          /\ UNCHANGED <<stdin, process>>
       \/ /\ serving[name] = <<>>
          /\ stdin[name] # <<>>
          /\ stdin' = [stdin EXCEPT ![name] = Tail(@)]
          /\ IF HookMessages(Head(stdin[name])) # <<>>
             THEN /\ PrintNext(name, Writes(HookMessages(Head(stdin[name]))))
                  /\ UNCHANGED process
             ELSE /\ process' = [process EXCEPT ![name] =
                                    IF HookCrashes(Head(stdin[name])) THEN "exited"
                                    ELSE @]
                  /\ UNCHANGED <<stdout, printed, serving>>
    /\ UNCHANGED <<controllers, asked, messageId, subscribers, buffer, host, calls,
                   dispatched, received, chunks, spawned, written, errors>>

(***************************************************************************)
(* PyBridge.                                                               *)
(***************************************************************************)
\* The properties every object inherits from Object.prototype.  this.controllers
\* is a plain object ({}), so this.controllers[name] is the inherited property
\* for these names: a function, or for __proto__ the prototype itself.
PrototypeNames ==
    {"constructor", "__defineGetter__", "__defineSetter__", "hasOwnProperty",
     "__lookupGetter__", "__lookupSetter__", "isPrototypeOf", "propertyIsEnumerable",
     "toString", "valueOf", "__proto__", "toLocaleString"}

\* Mutant of Cached: the facade of a killed subprocess is not reused.
CachedAlive(name) ==
    \/ name \in controllers /\ process[name] = "running"
    \/ name \in PrototypeNames

\* if (this.controllers[moduleName]): true of a name with a facade in the cache,
\* and of a name Object.prototype answers.
Cached(name) == name \in controllers \/ name \in PrototypeNames

\* controller(moduleName, schema): what this.controllers[moduleName] is when
\* that is truthy (the cached facade; for a name of PrototypeNames the property
\* of Object.prototype, which is no facade), or a new Controller (its fields
\* fresh, its subprocess spawned) behind a new facade.
Controller(name) ==
    /\ host = "running"
    /\ asked' = asked \cup {name}
    /\ \/ /\ Cached(name)
          /\ UNCHANGED <<controllers, process, spawned, messageId, subscribers, buffer,
                         stdin, stdout, serving>>
       \/ /\ ~Cached(name)
          /\ controllers' = controllers \cup {name}
          /\ process' = [process EXCEPT ![name] = "running"]
          /\ spawned' = [spawned EXCEPT ![name] = @ + 1]
          /\ messageId' = [messageId EXCEPT ![name] = 0]
          /\ subscribers' = [subscribers EXCEPT ![name] = NoSubscribers]
          /\ buffer' = [buffer EXCEPT ![name] = <<>>]
          /\ stdin' = [stdin EXCEPT ![name] = <<>>]
          /\ stdout' = [stdout EXCEPT ![name] = <<>>]
          /\ serving' = [serving EXCEPT ![name] = <<>>]
    /\ UNCHANGED <<host, calls, dispatched, printed, received, chunks, written, errors>>

\* controller.process.kill(): a running subprocess is killed; one that is gone
\* already is left as it is.
Kill(state) == IF state = "running" THEN "killed" ELSE state

\* Mutant of Close: close() also drops the sinks of the sessions it kills.
CloseDroppingSinks ==
    /\ host = "running"
    /\ process' = [n \in ModuleNames |->
                      IF n \in controllers THEN Kill(process[n]) ELSE process[n]]
    /\ subscribers' = [n \in ModuleNames |->
                          IF n \in controllers THEN NoSubscribers ELSE subscribers[n]]
    /\ UNCHANGED <<controllers, asked, messageId, buffer, stdin, stdout, serving, host, calls,
                   dispatched, printed, received, chunks, spawned, written, errors>>

\* close()
Close ==
    /\ host = "running"
    /\ process' = [n \in ModuleNames |->
                      IF n \in controllers THEN Kill(process[n]) ELSE process[n]]
    /\ UNCHANGED <<controllers, asked, messageId, subscribers, buffer, stdin, stdout, serving,
                   host, calls, dispatched, printed, received, chunks, spawned, written,
                   errors>>

(***************************************************************************)
(* The host's end.                                                         *)
(***************************************************************************)
\* A request of the session was written to the input of a subprocess that was
\* gone already: the write can fail (EPIPE).
WriteFailed(name) ==
    \E c \in DOMAIN calls : calls[c].name = name /\ calls[c].sentTo # "running"

\* The 'error' event of a failed write on process.stdin.  Nothing listens for
\* it, so node ends the host; its exit handlers kill every subprocess.  Whether
\* node emits the event or drops the write silently (when it has seen the
\* subprocess end before the write) depends on timing outside the code: the
\* step is possible, never necessary.
WriteError(name) ==
    /\ host = "running"
    /\ WriteFailed(name)
    /\ host' = "ended"
    /\ process' = [n \in ModuleNames |->
                      IF n \in controllers THEN Kill(process[n]) ELSE process[n]]
    /\ UNCHANGED <<controllers, asked, messageId, subscribers, buffer, stdin, stdout, serving,
                   calls, dispatched, printed, received, chunks, spawned, written,
                   errors>>

(***************************************************************************)
(* Spec: the bridge, its sessions and their subprocesses.                  *)
(***************************************************************************)
\* Every write of the hook ends in a newline and has no other: the pipe hands
\* the host one or more whole writes at a time.  (FramingSpec cuts the output at
\* every byte offset instead.)
Cuts(pipe) == {k \in 1..Len(pipe) : pipe[k] = NL}

ReadCut(name) == \E k \in Cuts(stdout[name]) : Read(name, k)

\* The methods called in Spec: one that returns and one that generates.
SessionMethods == {"one", "count"}

Next ==
    \/ \E name \in ModuleNames : Controller(name)
    \/ \E name \in ModuleNames, method \in SessionMethods : Call(name, method)
    \/ \E name \in ModuleNames : Hook(name)
    \/ \E name \in ModuleNames : ReadCut(name)
    \/ Close
    \/ \E name \in ModuleNames : WriteError(name)

Spec == Init /\ [][Next]_vars

(***************************************************************************)
(* MethodsSpec: one session of the bridge, called with every method of the *)
(* module.                                                                 *)
(***************************************************************************)
OneSession == {"m1"}

MethodsNext ==
    \/ \E name \in OneSession : Controller(name)
    \/ \E name \in OneSession, method \in MethodNames : Call(name, method)
    \/ \E name \in OneSession : Hook(name)
    \/ \E name \in OneSession : ReadCut(name)
    \/ Close
    \/ \E name \in OneSession : WriteError(name)

MethodsSpec == Init /\ [][MethodsNext]_vars

(***************************************************************************)
(* FacadeSpec: one session of the bridge, its facade called with a method  *)
(* that returns a number, with the method the contract declares as         *)
(* returning a Subject, and with a name the contract does not declare.     *)
(***************************************************************************)
FacadeMethods == {"one", "feed", Undeclared}

FacadeNext ==
    \/ \E name \in OneSession : Controller(name)
    \/ \E name \in OneSession, method \in FacadeMethods : Call(name, method)
    \/ \E name \in OneSession : Hook(name)
    \/ \E name \in OneSession : ReadCut(name)
    \/ Close
    \/ \E name \in OneSession : WriteError(name)

FacadeSpec == Init /\ [][FacadeNext]_vars

(***************************************************************************)
(* NamesSpec: the bridge asked for controllers of module names and of      *)
(* names that Object.prototype answers; every controller is called.        *)
(***************************************************************************)
AskedNames == ModuleNames \cup {"constructor", "__proto__"}

NamesMethods == {"one"}

NamesNext ==
    \/ \E name \in AskedNames : Controller(name)
    \/ \E name \in AskedNames, method \in NamesMethods : Call(name, method)
    \/ \E name \in ModuleNames : Hook(name)
    \/ \E name \in ModuleNames : ReadCut(name)
    \/ Close
    \/ \E name \in ModuleNames : WriteError(name)

NamesSpec == Init /\ [][NamesNext]_vars

(***************************************************************************)
(* ClosingSpec: the bridge and two sessions, called with a method that     *)
(* returns 1 and with one that returns 0, and closed at any moment.        *)
(***************************************************************************)
ClosingMethods == {"one", "zero"}

ClosingNext ==
    \/ \E name \in ModuleNames : Controller(name)
    \/ \E name \in ModuleNames, method \in ClosingMethods : Call(name, method)
    \/ \E name \in ModuleNames : Hook(name)
    \/ \E name \in ModuleNames : ReadCut(name)
    \/ Close
    \/ \E name \in ModuleNames : WriteError(name)

ClosingSpec == Init /\ [][ClosingNext]_vars

(***************************************************************************)
(* FramingSpec: the read handler of one session on its own.  Two calls     *)
(* (ids 0 and 1) have been sent; the subprocess has printed one of the     *)
(* byte streams of Wires, which reaches the handler cut at any offsets.    *)
(***************************************************************************)
\* {"id":1,"yield":1}\n
WireYield ==
    <<"{", "\"", "i", "d", "\"", ":", "1", ",", "\"", "y", "i", "e", "l", "d", "\"",
      ":", "1", "}", NL>>
\* {"id":0}\n{"id":1}\n
WireTwo ==
    <<"{", "\"", "i", "d", "\"", ":", "0", "}", NL,
      "{", "\"", "i", "d", "\"", ":", "1", "}", NL>>
\* not-json-at-all\n{"id":0}\n
WireNoise ==
    <<"n", "o", "t", "-", "j", "s", "o", "n", "-", "a", "t", "-", "a", "l", "l", NL,
      "{", "\"", "i", "d", "\"", ":", "0", "}", NL>>
\* {"id":0\n{"id":1,"yield":2}\n{"id":1}\n
WireBroken ==
    <<"{", "\"", "i", "d", "\"", ":", "0", NL,
      "{", "\"", "i", "d", "\"", ":", "1", ",", "\"", "y", "i", "e", "l", "d", "\"",
      ":", "2", "}", NL,
      "{", "\"", "i", "d", "\"", ":", "1", "}", NL>>
\* {"id":0}\n{"id":0,"yield":1}\n{"id":5,"yield":1}\n{"id":1}\n
WireOrphan ==
    <<"{", "\"", "i", "d", "\"", ":", "0", "}", NL,
      "{", "\"", "i", "d", "\"", ":", "0", ",", "\"", "y", "i", "e", "l", "d", "\"",
      ":", "1", "}", NL,
      "{", "\"", "i", "d", "\"", ":", "5", ",", "\"", "y", "i", "e", "l", "d", "\"",
      ":", "1", "}", NL,
      "{", "\"", "i", "d", "\"", ":", "1", "}", NL>>
\* {"id":0,"error":{"toString":1}}\n{"id":0}\n
WireThrow ==
    <<"{", "\"", "i", "d", "\"", ":", "0", ",", "\"", "e", "r", "r", "o", "r", "\"",
      ":", "{", "\"", "t", "o", "S", "t", "r", "i", "n", "g", "\"", ":", "1", "}", "}", NL,
      "{", "\"", "i", "d", "\"", ":", "0", "}", NL>>
\* what the hook prints for the request of call 0
WireHook == PrintAll(HookMessages(JSONstringify(Request(0, "one")) \o <<NL>>))

Wires == {WireYield, WireTwo, WireNoise, WireBroken, WireOrphan, WireThrow, WireHook}

FramingInit ==
    /\ controllers = {"m1"}
    /\ asked = {"m1"}
    /\ process = [n \in ModuleNames |-> IF n = "m1" THEN "running" ELSE "none"]
    /\ messageId = [n \in ModuleNames |-> IF n = "m1" THEN 2 ELSE 0]
    /\ subscribers = [n \in ModuleNames |->
                         IF n = "m1" THEN [i \in {0, 1} |-> i + 1] ELSE NoSubscribers]
    /\ buffer = [n \in ModuleNames |-> <<>>]
    /\ stdin = [n \in ModuleNames |-> <<>>]
    /\ \E w \in Wires : stdout = [n \in ModuleNames |-> IF n = "m1" THEN w ELSE <<>>]
    /\ serving = [n \in ModuleNames |-> <<>>]
    /\ host = "running"
    /\ calls = <<NewCall("m1", 0, "one", ReturnType("one")),
                 NewCall("m1", 1, "one", ReturnType("one"))>>
    /\ dispatched = <<>>
    /\ printed = [n \in ModuleNames |-> <<>>]
    /\ received = [n \in ModuleNames |-> <<>>]
    /\ chunks = [n \in ModuleNames |-> 0]
    /\ spawned = [n \in ModuleNames |-> IF n = "m1" THEN 1 ELSE 0]
    /\ written = [n \in ModuleNames |->
                     IF n = "m1" THEN <<RequestLine(0, "one"), RequestLine(1, "one")>>
                     ELSE <<>>]
    /\ errors = {}

ReadAny(name) == \E k \in 1..Len(stdout[name]) : Read(name, k)

FramingNext == \E name \in ModuleNames : ReadAny(name)

FramingSpec == FramingInit /\ [][FramingNext]_vars

(***************************************************************************)
(* SessionsSpec: the read handlers of two sessions.  Each session has sent *)
(* one call, both with the id 0; the subprocess of m1 has printed a Yield  *)
(* for its id 0 and that of m2 a Completion for its id 0, and the two byte *)
(* streams reach their handlers cut at any offsets and interleaved in any  *)
(* order.                                                                  *)
(***************************************************************************)
\* {"id":0,"yield":1}\n
WireFirst ==
    <<"{", "\"", "i", "d", "\"", ":", "0", ",", "\"", "y", "i", "e", "l", "d", "\"",
      ":", "1", "}", NL>>
\* {"id":0}\n
WireSecond == <<"{", "\"", "i", "d", "\"", ":", "0", "}", NL>>

SessionsInit ==
    /\ controllers = ModuleNames
    /\ asked = ModuleNames
    /\ process = [n \in ModuleNames |-> "running"]
    /\ messageId = [n \in ModuleNames |-> 1]
    /\ subscribers = [n \in ModuleNames |-> [i \in {0} |-> IF n = "m1" THEN 1 ELSE 2]]
    /\ buffer = [n \in ModuleNames |-> <<>>]
    /\ stdin = [n \in ModuleNames |-> <<>>]
    /\ stdout = [n \in ModuleNames |-> IF n = "m1" THEN WireFirst ELSE WireSecond]
    /\ serving = [n \in ModuleNames |-> <<>>]
    /\ host = "running"
    /\ calls = <<NewCall("m1", 0, "one", ReturnType("one")),
                 NewCall("m2", 0, "one", ReturnType("one"))>>
    /\ dispatched = <<>>
    /\ printed = [n \in ModuleNames |-> <<>>]
    /\ received = [n \in ModuleNames |-> <<>>]
    /\ chunks = [n \in ModuleNames |-> 0]
    /\ spawned = [n \in ModuleNames |-> 1]
    /\ written = [n \in ModuleNames |-> <<RequestLine(0, "one")>>]
    /\ errors = {}

SessionsNext == \E name \in ModuleNames : ReadAny(name)

SessionsSpec == SessionsInit /\ [][SessionsNext]_vars

(***************************************************************************)
(* Definitions the properties share.                                       *)
(***************************************************************************)
\* The event a printed message is, by the fields present in it.
EventOf(msg) ==
    IF HasKey(msg, KeyYield) THEN Event("next", Get(msg, KeyYield))
    ELSE IF HasKey(msg, KeyError) THEN Event("error", NewError(Get(msg, KeyError)))
    ELSE Event("complete", Undefined)

RECURSIVE EventsOf(_, _)
\* The events of the messages of msgs that carry id, in order.
EventsOf(msgs, id) ==
    IF msgs = <<>> THEN <<>>
    ELSE (IF Get(msgs[1], KeyId) = JsNum(id) THEN <<EventOf(msgs[1])>> ELSE <<>>)
         \o EventsOf(Tail(msgs), id)

\* The events the subprocess has printed for call c.
PrintedFor(c) == EventsOf(printed[calls[c].name], calls[c].id)

\* Everything the subprocess of the session has printed has been read and processed.
Drained(name) == stdout[name] = <<>> /\ buffer[name] = <<>>

\* The subprocess has printed its whole answer to call c (the last message of
\* an answer is its Error or its Completion) and the host has read all of it.
Answered(c) ==
    /\ PrintedFor(c) # <<>>
    /\ PrintedFor(c)[Len(PrintedFor(c))].op # "next"
    /\ Drained(calls[c].name)

IsPrefix(s, t) == Len(s) <= Len(t) /\ SubSeq(t, 1, Len(s)) = s

CountOp(events, op) == Cardinality({i \in DOMAIN events : events[i].op = op})

RECURSIVE NextEvents(_)
NextEvents(items) ==
    IF items = <<>> THEN <<>>
    ELSE <<Event("next", items[1])>> \o NextEvents(Tail(items))

AllValid(method) ==
    \A i \in DOMAIN Behaviour(method).items :
        SchemaParse(ReturnType(method), Behaviour(method).items[i]).ok

(***************************************************************************)
(* C1.  Each call's stream receives exactly the events addressed to its    *)
(* own correlation id, in the order the subprocess printed them, and never *)
(* an event carrying another call's id (for calls whose values have the    *)
(* declared shape).                                                        *)
(***************************************************************************)
C1_EachCallReceivesItsOwnEvents ==
    /\ \A c \in DOMAIN calls :
           (AllValid(calls[c].method) /\ Drained(calls[c].name)) =>
               calls[c].events = PrintedFor(c)
    /\ \A i \in DOMAIN dispatched :
           /\ Get(dispatched[i].data, KeyId) = JsNum(calls[dispatched[i].call].id)
           /\ dispatched[i].name = calls[dispatched[i].call].name

TailAfterNewline(s) == Split(s, NL)[Len(Split(s, NL))]

(***************************************************************************)
(* C2.  After a chunk is processed the buffer holds exactly the bytes that *)
(* follow the last newline delivered (so no record is lost or processed    *)
(* twice).                                                                 *)
(***************************************************************************)
C2_BufferHoldsBytesAfterLastNewline ==
    \A n \in ModuleNames : buffer[n] = TailAfterNewline(received[n])

(***************************************************************************)
(* C3.  The record {"id":1,"yield":1} and its newline, delivered in any    *)
(* chunks, produce exactly one dispatch: a Yield of 1 to the call with     *)
(* id 1, as when delivered in one chunk; nothing is dispatched before the  *)
(* newline arrives.                                                        *)
(***************************************************************************)
C3_SplitRecordYieldsOnce ==
    received["m1"] \o stdout["m1"] = WireYield =>
        IF stdout["m1"] # <<>>
        THEN dispatched = <<>>
        ELSE /\ dispatched = <<LogEntry("m1", 2, YieldMessage(JsNum(1), JsNum(1)), "next")>>
             /\ calls[2].events = <<Event("next", JsNum(1))>>
             /\ calls[1].events = <<>>
             /\ buffer["m1"] = <<>>

\* The record arrived in two or more chunks and was dispatched once.
C3_Witness ==
    /\ received["m1"] = WireYield
    /\ chunks["m1"] = 2
    /\ calls[2].events = <<Event("next", JsNum(1))>>

(***************************************************************************)
(* C4.  The variant of a record is decided by the presence of its fields:  *)
(* a record with the key yield is treated as a Yield whatever the value,   *)
(* and a record with the key error and no yield as an Error.               *)
(***************************************************************************)
C4_VariantByFieldPresence ==
    \A i \in DOMAIN dispatched :
        LET e == dispatched[i]
        IN ~HasKey(e.data, KeyReady) =>
               /\ HasKey(e.data, KeyYield) => e.op \in {"next", "throw"}
               /\ (HasKey(e.data, KeyError) /\ ~HasKey(e.data, KeyYield)) => e.op = "error"

(***************************************************************************)
(* C5.  A call of a non-generator method that returns V (a value of the    *)
(* declared shape) delivers exactly one Yield of V and then one            *)
(* Completion, and its promise resolves with V.                            *)
(***************************************************************************)
C5_ReturnYieldsOnceThenCompletes ==
    \A c \in DOMAIN calls :
        LET b == Behaviour(calls[c].method)
        IN (~b.gen /\ ~b.raises /\ AllValid(calls[c].method) /\ Answered(c)) =>
               /\ calls[c].events = <<Event("next", b.items[1]), Event("complete", Undefined)>>
               /\ calls[c].promise = [state |-> "resolved", v |-> b.items[1]]

(***************************************************************************)
(* C6.  A call of a generator method observes one Yield per produced item, *)
(* in order, then one Completion; the Completion is never observed before  *)
(* all the items.                                                          *)
(***************************************************************************)
C6_GeneratorYieldsAllThenCompletes ==
    \A c \in DOMAIN calls :
        LET b == Behaviour(calls[c].method)
            expected == NextEvents(b.items) \o <<Event("complete", Undefined)>>
        IN (b.gen /\ ~b.raises /\ AllValid(calls[c].method)) =>
               /\ IsPrefix(calls[c].events, expected)
               /\ calls[c].stopped => calls[c].events = expected
               /\ Answered(c) => calls[c].events = expected

(***************************************************************************)
(* C7.  When the remote method raises, the call receives exactly one Error *)
(* and no Completion, and its promise rejects with the remote trace.       *)
(***************************************************************************)
C7_RaiseGivesOneErrorNoCompletion ==
    \A c \in DOMAIN calls :
        (Behaviour(calls[c].method).raises /\ Answered(c)) =>
            /\ CountOp(calls[c].events, "error") = 1
            /\ CountOp(calls[c].events, "complete") = 0
            /\ calls[c].promise = [state |-> "rejected", v |-> NewError(Trace)]

(***************************************************************************)
(* C8.  A Yield whose value does not match the expected shape of its call  *)
(* fails that call's stream (and promise).                                 *)
(***************************************************************************)
C8_InvalidYieldFailsItsCall ==
    \A i \in DOMAIN dispatched :
        dispatched[i].op = "throw" =>
            /\ CountOp(calls[dispatched[i].call].events, "error") = 1
            /\ calls[dispatched[i].call].promise.state = "rejected"

ValidLine(message) == StartsWith(message, <<"{", "\"">>) /\ JSONparse(message).ok

(***************************************************************************)
(* C9.  A line that does not start a JSON object (an opening brace and the *)
(* quote of its first key), or that does not parse, is dropped: processing *)
(* a chunk has the effect of processing its valid lines alone, in order,   *)
(* and the subprocess is left running.                                     *)
(***************************************************************************)
C9_InvalidLinesAreDropped ==
    [][\A n \in ModuleNames :
          Len(stdout'[n]) < Len(stdout[n]) =>
              LET data == SubSeq(stdout[n], 1, Len(stdout[n]) - Len(stdout'[n]))
                  st0 == [subs |-> subscribers[n], calls |-> calls, log |-> dispatched]
                  valid == SelectSeq(Messages(buffer[n] \o data), ValidLine)
                  st == IF Includes(data, NL) THEN ProcessMessages(st0, n, valid) ELSE st0
              IN /\ subscribers'[n] = st.subs
                 /\ calls' = st.calls
                 /\ dispatched' = st.log
                 /\ process' = process]_vars

\* The noise line was read and dropped, and the line after it was dispatched.
C9_Witness ==
    /\ received["m1"] = WireNoise
    /\ calls[1].events = <<Event("complete", Undefined)>>
    /\ DOMAIN subscribers["m1"] = {1}
    /\ process["m1"] = "running"

CallsOf(n) == {c \in DOMAIN calls : calls[c].name = n}

(***************************************************************************)
(* C10.  The ids of a session are 0, 1, 2, ... in the order of its calls   *)
(* and are never reused: a sink is registered under the id of its own call *)
(* and stays there until its call ends.                                    *)
(***************************************************************************)
C10_IdsIncreaseAndAreNeverReused ==
    /\ \A n \in ModuleNames :
           /\ {calls[c].id : c \in CallsOf(n)} = 0..(messageId[n] - 1)
           /\ \A c1, c2 \in CallsOf(n) : c1 < c2 => calls[c1].id < calls[c2].id
           /\ \A id \in DOMAIN subscribers[n] :
                  /\ calls[subscribers[n][id]].name = n
                  /\ calls[subscribers[n][id]].id = id
    /\ \A c \in DOMAIN calls :
           ~calls[c].stopped =>
               /\ calls[c].id \in DOMAIN subscribers[calls[c].name]
               /\ subscribers[calls[c].name][calls[c].id] = c

\* Two calls of one session hold the ids 0 and 1, both registered.
C10_Witness ==
    \E n \in ModuleNames :
        /\ messageId[n] = 2
        /\ DOMAIN subscribers[n] = {0, 1}
        /\ Cardinality(CallsOf(n)) = 2

\* A message that ends its call, by the fields present in it: an Error or a
\* Completion.
IsTerminal(data) == ~HasKey(data, KeyReady) /\ ~HasKey(data, KeyYield)

\* A terminal message has been handed to the sink of call c.
TerminalDispatched(c) ==
    \E i \in DOMAIN dispatched : dispatched[i].call = c /\ IsTerminal(dispatched[i].data)

\* The sink of call c is in the registry of its session, under the id of c.
IsRegistered(c) ==
    /\ calls[c].id \in DOMAIN subscribers[calls[c].name]
    /\ subscribers[calls[c].name][calls[c].id] = c

(***************************************************************************)
(* C11.  A call is in the registry from its send until the first terminal  *)
(* event (Error or Completion) for its id is dispatched; that dispatch     *)
(* forwards the event and removes the sink, once; the dispatch of a Yield  *)
(* never removes it.                                                       *)
(***************************************************************************)
C11_RegisteredUntilTerminalEvent ==
    /\ \A c \in DOMAIN calls : IsRegistered(c) <=> ~TerminalDispatched(c)
    /\ \A i \in DOMAIN dispatched :
           dispatched[i].op \in {"error", "complete"} => IsTerminal(dispatched[i].data)
    /\ \A c \in DOMAIN calls :
           Cardinality({i \in DOMAIN dispatched :
                           dispatched[i].call = c /\ IsTerminal(dispatched[i].data)}) <= 1

\* The registry holds a sink under the id the line carries.
HasSink(subs, message) ==
    \E k \in DOMAIN subs : Get(JSONparse(message).v, KeyId) = JsNum(k)

RECURSIVE DispatchRegistered(_, _, _)
\* The lines processed in order, those whose id has no sink at their turn skipped.
DispatchRegistered(st, name, messages) ==
    IF messages = <<>> THEN st
    ELSE IF ValidLine(messages[1]) /\ ~HasSink(st.subs, messages[1])
         THEN DispatchRegistered(st, name, Tail(messages))
         ELSE DispatchRegistered(ProcessMessage(st, name, messages[1]), name,
                                 Tail(messages))

(***************************************************************************)
(* C12.  An event whose id has no registered sink (an id never issued, or  *)
(* one whose call already ended) is dropped: processing a chunk has the    *)
(* effect of processing it without those events, so no stream receives     *)
(* them and the registry and the other calls are as if they had not come;  *)
(* the id counter and the subprocess are untouched.                        *)
(***************************************************************************)
C12_EventsWithoutSinkAreDropped ==
    [][\A n \in ModuleNames :
          Len(stdout'[n]) < Len(stdout[n]) =>
              LET data == SubSeq(stdout[n], 1, Len(stdout[n]) - Len(stdout'[n]))
                  st0 == [subs |-> subscribers[n], calls |-> calls, log |-> dispatched]
                  st == IF Includes(data, NL)
                        THEN DispatchRegistered(st0, n, Messages(buffer[n] \o data))
                        ELSE st0
              IN /\ subscribers'[n] = st.subs
                 /\ calls' = st.calls
                 /\ dispatched' = st.log
                 /\ messageId' = messageId
                 /\ process' = process]_vars

\* The Yield that follows the Completion of id 0 and the Yield of the id 5 that
\* was never issued were read, and only the two Completions were dispatched.
C12_Witness ==
    /\ received["m1"] = WireOrphan
    /\ Len(dispatched) = 2
    /\ calls[1].events = <<Event("complete", Undefined)>>
    /\ calls[2].events = <<Event("complete", Undefined)>>
    /\ subscribers["m1"] = NoSubscribers
    /\ messageId["m1"] = 2

\* The number of Yield messages handed to the sink of call c.
YieldsDispatched(c) ==
    Cardinality({i \in DOMAIN dispatched :
                    dispatched[i].call = c /\ HasKey(dispatched[i].data, KeyYield)})

\* The values the caller of call c has been handed so far: through the stream
\* each value as it is forwarded, through a promise one value once it resolves.
Observed(c) ==
    IF calls[c].returned = "subject"
    THEN SelectSeq(calls[c].events, LAMBDA e : e.op = "next")
    ELSE IF calls[c].promise.state = "resolved"
         THEN <<Event("next", calls[c].promise.v)>>
         ELSE <<>>

(***************************************************************************)
(* C13.  A call of a method the contract declares as returning a stream    *)
(* hands its caller the event stream, through which the caller has seen    *)
(* every Yield dispatched so far; a call of any other method hands its     *)
(* caller a promise.                                                       *)
(***************************************************************************)
C13_StreamMethodsReturnTheStream ==
    \A c \in DOMAIN calls :
        IF StreamReturning(calls[c].method)
        THEN /\ calls[c].returned = "subject"
             /\ Len(Observed(c)) = YieldsDispatched(c)
        ELSE calls[c].returned = "promise"

(***************************************************************************)
(* C14 as the specification states it.  A name the contract does not       *)
(* declare is rejected when the facade is constructed, so no call through  *)
(* a facade is rejected for its name.                                      *)
(***************************************************************************)
C14_UndeclaredRejectedAtConstruction == errors = {}

(***************************************************************************)
(* C14, amended.  controller(name) rejects nothing; a call of a name the   *)
(* contract does not declare throws when it is made, before send: it takes *)
(* no id, registers no sink and writes nothing, and only declared methods  *)
(* are ever sent.                                                          *)
(***************************************************************************)
C14_UndeclaredRejectedWhenCalled ==
    [][/\ \A c \in DOMAIN calls' : calls'[c].method \in Declared
       /\ \A e \in errors' : e[2] \notin Declared
       /\ controllers' # controllers => errors' = errors
       /\ errors' # errors =>
              UNCHANGED <<controllers, process, messageId, subscribers, calls, stdin,
                          written, dispatched>>]_vars

\* A call of the undeclared name has thrown on a facade of m1 that has sent nothing.
C14_Witness ==
    /\ <<"m1", Undeclared>> \in errors
    /\ "m1" \in controllers
    /\ messageId["m1"] = 0
    /\ written["m1"] = <<>>
    /\ subscribers["m1"] = NoSubscribers

(***************************************************************************)
(* C15.  For every name controller() is called with, the first call spawns *)
(* one subprocess for the name and puts its facade in the cache, and every *)
(* later one returns the cached facade and spawns nothing: a name has a    *)
(* facade of its own and one subprocess if it was asked for and none       *)
(* otherwise, whatever else happened to the bridge, and each name has a    *)
(* session of its own.                                                     *)
(***************************************************************************)
C15_OneSubprocessPerName ==
    /\ asked = controllers
    /\ \A n \in ModuleNames :
           /\ spawned[n] = IF n \in asked THEN 1 ELSE 0
           /\ process[n] = "none" <=> n \notin asked
           /\ \A c \in CallsOf(n) : calls[c].id < messageId[n]

\* The subprocess of the session of call c has been killed.
Killed(c) == process[calls[c].name] = "killed"

(***************************************************************************)
(* C16 as the specification states it.  Once close() has killed the        *)
(* subprocess of a session, a call of that session that is pending stays   *)
(* registered and its promise stays pending at every later step.           *)
(***************************************************************************)
C16_PendingAtCloseNeverSettles ==
    [][\A c \in DOMAIN calls :
          (Killed(c) /\ calls[c].promise.state = "pending") =>
              /\ calls'[c].promise.state = "pending"
              /\ IsRegistered(c)']_vars

\* The number of messages of its subprocess that the read handler of the
\* session has received: each is a line of its own, followed by the empty line
\* of print's own newline.
ReceivedMessages(n) ==
    Cardinality({k \in 2..Len(received[n]) :
                    received[n][k] = NL /\ received[n][k - 1] # NL})

\* The messages for the id of call c that its subprocess has printed and the
\* read handler has not received yet.
Undelivered(c) ==
    SelectSeq(SubSeq(printed[calls[c].name], ReceivedMessages(calls[c].name) + 1,
                     Len(printed[calls[c].name])),
              LAMBDA msg : Get(msg, KeyId) = JsNum(calls[c].id))

\* One of them is a message the sink takes as the end of its call: an Error, a
\* Completion, or a Yield of a falsy value (the sink tests the value, C4).
EndUndelivered(c) ==
    \E i \in DOMAIN Undelivered(c) : Variant(Undelivered(c)[i]) \in {"error", "completion"}

(***************************************************************************)
(* C16, amended.  close() kills the subprocess of every session created    *)
(* and does nothing else: it dispatches no event, removes no sink and      *)
(* settles no promise.  A killed subprocess prints nothing more, but what  *)
(* it printed before the kill is still read and dispatched after it.  So a *)
(* call pending in a killed session, for which no message that its sink    *)
(* takes as the end of the call is printed and still undelivered, stays    *)
(* registered and pending at every later step, also at the steps that      *)
(* deliver the rest of the output: these only add Yields to its stream.    *)
(***************************************************************************)
C16_CloseKillsAndDeliversNothing ==
    [][/\ (\E n \in ModuleNames : process'[n] # process[n] /\ process'[n] = "killed") =>
              /\ \A n \in ModuleNames :
                     process'[n] = IF n \in controllers THEN Kill(process[n]) ELSE "none"
              /\ UNCHANGED <<subscribers, calls, dispatched, messageId, buffer, stdout>>
       /\ \A n \in ModuleNames :
              process[n] = "killed" => process'[n] = "killed" /\ printed'[n] = printed[n]
       /\ \A c \in DOMAIN calls :
              (Killed(c) /\ calls[c].promise.state = "pending" /\ IsRegistered(c)
                 /\ ~EndUndelivered(c)) =>
                  /\ calls'[c].promise.state = "pending"
                  /\ IsRegistered(c)'
                  /\ ~EndUndelivered(c)'
                  /\ IsPrefix(calls[c].events, calls'[c].events)
                  /\ \A i \in DOMAIN calls'[c].events : calls'[c].events[i].op = "next"]_vars

\* close() has killed a session while it was answering a call: the Yield the
\* subprocess printed before the kill has reached the call, its Completion was
\* never printed, and the call is registered and pending.
C16_Witness ==
    \E c \in DOMAIN calls :
        /\ Killed(c)
        /\ calls[c].sentTo = "running"
        /\ PrintedFor(c) = <<Event("next", JsNum(1))>>
        /\ calls[c].events = PrintedFor(c)
        /\ Drained(calls[c].name)
        /\ IsRegistered(c)
        /\ calls[c].promise.state = "pending"

(***************************************************************************)
(* C17.  The promise of a call is pending until a terminal event (Error or *)
(* Completion) for its id has been dispatched and settled from then on:    *)
(* rejected by an Error, resolved by a Completion; no Yield and no event   *)
(* of another id settles it.                                               *)
(***************************************************************************)
C17_PromiseSettlesOnTerminalEventOnly ==
    \A c \in DOMAIN calls :
        LET terminal == {i \in DOMAIN dispatched :
                            dispatched[i].call = c /\ IsTerminal(dispatched[i].data)}
        IN /\ calls[c].promise.state = "pending" <=> terminal = {}
           /\ \A i \in terminal :
                  /\ Get(dispatched[i].data, KeyId) = JsNum(calls[c].id)
                  /\ calls[c].promise.state =
                         IF HasKey(dispatched[i].data, KeyError) THEN "rejected"
                         ELSE "resolved"

IsSuffix(s, t) == Len(s) <= Len(t) /\ SubSeq(t, Len(t) - Len(s) + 1, Len(t)) = s

(***************************************************************************)
(* C18.  Every call writes one complete line to its subprocess: the i-th   *)
(* write of a session is one request, ended by its only newline, carrying  *)
(* the id i-1, so the requests are whole and their ids strictly            *)
(* increasing; the call of that id has a registered sink or has ended; and *)
(* the subprocess's input holds the requests it has not read, in order.    *)
(***************************************************************************)
C18_RequestsWholeAndInOrder ==
    \A n \in ModuleNames :
        /\ Len(written[n]) = messageId[n]
        /\ IsSuffix(stdin[n], written[n])
        /\ \A i \in DOMAIN written[n] :
               LET w == written[n][i]
                   p == JSONparse(w)
               IN /\ w # <<>>
                  /\ w[Len(w)] = NL
                  /\ ~Includes(SubSeq(w, 1, Len(w) - 1), NL)
                  /\ p.ok
                  /\ Get(p.v, KeyId) = JsNum(i - 1)
                  /\ \E c \in CallsOf(n) :
                         /\ calls[c].id = i - 1
                         /\ Get(p.v, KeyMethod) = JsStr(WireName(calls[c].method))
                         /\ IsRegistered(c) \/ calls[c].stopped

\* Two requests were written to m1; the subprocess has read the first and
\* answered it, the call has ended, and the second is still on its input.
C18_Witness ==
    /\ Len(written["m1"]) = 2
    /\ Len(stdin["m1"]) = 1
    /\ \E c \in CallsOf("m1") : calls[c].id = 0 /\ calls[c].stopped /\ ~IsRegistered(c)

(***************************************************************************)
(* C19.  A session goes from spawned and running to closed and stays       *)
(* closed: after close() the name keeps its cached facade, controller(name)*)
(* spawns nothing, and the killed subprocess prints nothing more.  A call  *)
(* made through the facade after close() still takes the next id and       *)
(* registers its sink, and no event is ever dispatched to it: it stays     *)
(* registered and its promise pending.                                     *)
(***************************************************************************)
C19_ClosedSessionStaysClosed ==
    [][/\ \A n \in ModuleNames :
              /\ process[n] = "none" => process'[n] \in {"none", "running"}
              /\ process[n] = "killed" =>
                     /\ process'[n] = "killed"
                     /\ n \in controllers'
                     /\ spawned'[n] = spawned[n]
                     /\ printed'[n] = printed[n]
                     /\ messageId'[n] \in {messageId[n], messageId[n] + 1}
                     /\ messageId'[n] # messageId[n] =>
                            LET c == Len(calls')
                            IN /\ Len(calls') = Len(calls) + 1
                               /\ calls'[c].name = n
                               /\ calls'[c].id = messageId[n]
                               /\ calls'[c].sentTo = "killed"
       /\ \A c \in DOMAIN calls' :
              calls'[c].sentTo = "killed" =>
                  /\ IsRegistered(c)'
                  /\ calls'[c].events = <<>>
                  /\ calls'[c].promise = Pending
                  /\ PrintedFor(c)' = <<>>
                  /\ \A i \in DOMAIN dispatched' : dispatched'[i].call # c]_vars

\* m1 was closed after one call and called again through its cached facade: the
\* second call holds the id 1, is registered and pending, and its request lies
\* unread on the input of the killed subprocess.
C19_Witness ==
    \E c \in CallsOf("m1") :
        /\ process["m1"] = "killed"
        /\ spawned["m1"] = 1
        /\ calls[c].sentTo = "killed"
        /\ calls[c].id = 1
        /\ IsRegistered(c)
        /\ calls[c].promise = Pending
        /\ stdin["m1"] # <<>>
        /\ Drained("m1")

\* The messages of the valid lines of a text, in order.
ParsedLines(text) ==
    LET valid == SelectSeq(Messages(text), ValidLine)
    IN [i \in DOMAIN valid |-> JSONparse(valid[i]).v]

\* All the bytes the subprocess of the session has printed, delivered or not.
Output(n) == received[n] \o stdout[n]

(***************************************************************************)
(* C20.  With two sessions, each has its own id counter, buffer and        *)
(* registry: a record is dispatched only to a call of the session whose    *)
(* subprocess printed it, also when the other session has a pending call   *)
(* with the same id; the buffer of a session holds bytes of its own        *)
(* subprocess only; and once the output of a session is read, its call has *)
(* received the events of that output and no other.                        *)
(***************************************************************************)
C20_SessionsAreIndependent ==
    /\ \A i \in DOMAIN dispatched :
           LET e == dispatched[i]
           IN /\ calls[e.call].name = e.name
              /\ \E j \in DOMAIN ParsedLines(received[e.name]) :
                     ParsedLines(received[e.name])[j] = e.data
    /\ \A n \in ModuleNames :
           /\ IsSuffix(buffer[n], received[n])
           /\ messageId[n] = Cardinality(CallsOf(n))
           /\ \A id \in DOMAIN subscribers[n] : calls[subscribers[n][id]].name = n
    /\ \A c \in DOMAIN calls :
           LET expected == EventsOf(ParsedLines(Output(calls[c].name)), calls[c].id)
           IN /\ IsPrefix(calls[c].events, expected)
              /\ stdout[calls[c].name] = <<>> => calls[c].events = expected

\* Both outputs were read, that of m1 in two or more chunks with chunks of m2
\* in between or around: the call of m1 has its Yield and is still registered
\* under the id 0, the call of m2 has its Completion.
C20_Witness ==
    /\ received["m1"] = WireFirst
    /\ received["m2"] = WireSecond
    /\ chunks["m1"] = 2
    /\ chunks["m2"] = 2
    /\ calls[1].events = <<Event("next", JsNum(1))>>
    /\ calls[2].events = <<Event("complete", Undefined)>>
    /\ DOMAIN subscribers["m1"] = {0}
    /\ subscribers["m2"] = NoSubscribers
====
